---- MODULE Spec2Model ----
(***************************************************************************)
(* StackIt Q&A forum backend: the account directory (src/auth.py) and the  *)
(* question catalog (src/questions.py), two Flask blueprints working on    *)
(* the module-level lists mock_users and mock_questions.                   *)
(*                                                                         *)
(* Strings that arrive in requests or are inspected by the code (titles,   *)
(* descriptions, timestamps, the search argument, email, name, password)   *)
(* are sequences of one-character strings.  Fixed labels the code only     *)
(* copies (author and tag names, messages, tokens) are TLA+ strings.       *)
(***************************************************************************)
EXTENDS Integers, Sequences, FiniteSets, TLC

(***************************************************************************)
(* Bounds of the model.                                                    *)
(***************************************************************************)
MaxQuestions == 5      \* create_question is disabled once the catalog has this many records
MaxUsers == 3          \* register is disabled once the directory has this many records
MaxPage == 2           \* largest page argument tried
NegPages == 1          \* page arguments go down to -NegPages
MaxLimit == 2          \* largest limit argument tried
NumProcs == 2          \* concurrent register requests in SpecRace

(***************************************************************************)
(* JSON values as the handlers see them after request.get_json().          *)
(***************************************************************************)
JStr(s) == [t |-> "str", v |-> s]
JNum(n) == [t |-> "num", v |-> n]
JNull == [t |-> "null"]

\* Python truthiness, as used by `not data.get(...)`.
Truthy(x) ==
    CASE x.t = "null" -> FALSE
      [] x.t = "num" -> x.v # 0
      [] x.t = "str" -> x.v # <<>>

\* Python == between two JSON values (a str never equals a number).
JEq(a, b) == a.t = b.t /\ (a.t = "null" \/ a.v = b.v)

(***************************************************************************)
(* Seed data: mock_questions and mock_users.                               *)
(***************************************************************************)
Title1 ==
    <<"H","o","w"," ","t","o"," ","i","m","p","l","e","m","e","n","t"," ","a","u","t","h","e","n",
      "t","i","c","a","t","i","o","n"," ","i","n"," ","R","e","a","c","t","?">>

Description1 ==
    <<"I","'","m"," ","b","u","i","l","d","i","n","g"," ","a"," ","R","e","a","c","t"," ","a","p",
      "p","l","i","c","a","t","i","o","n"," ","a","n","d"," ","n","e","e","d"," ","t","o"," ","i",
      "m","p","l","e","m","e","n","t"," ","u","s","e","r"," ","a","u","t","h","e","n","t","i","c",
      "a","t","i","o","n","."," ","W","h","a","t"," ","a","r","e"," ","t","h","e"," ","b","e","s",
      "t"," ","p","r","a","c","t","i","c","e","s"," ","f","o","r"," ","h","a","n","d","l","i","n",
      "g"," ","l","o","g","i","n",","," ","l","o","g","o","u","t",","," ","a","n","d"," ","p","r",
      "o","t","e","c","t","i","n","g"," ","r","o","u","t","e","s","?">>

CreatedAt1 ==
    <<"2","0","2","4","-","0","1","-","1","5","T","1","0",":","3","0",":","0","0","Z">>

UpdatedAt1 ==
    <<"2","0","2","4","-","0","1","-","1","6","T","1","4",":","2","0",":","0","0","Z">>

Title2 ==
    <<"B","e","s","t"," ","p","r","a","c","t","i","c","e","s"," ","f","o","r"," ","N","o","d","e",
      ".","j","s"," ","A","P","I"," ","d","e","s","i","g","n">>

Description2 ==
    <<"W","h","a","t"," ","a","r","e"," ","t","h","e"," ","r","e","c","o","m","m","e","n","d","e",
      "d"," ","p","a","t","t","e","r","n","s"," ","a","n","d"," ","p","r","a","c","t","i","c","e",
      "s"," ","f","o","r"," ","d","e","s","i","g","n","i","n","g"," ","R","E","S","T","f","u","l",
      " ","A","P","I","s"," ","i","n"," ","N","o","d","e",".","j","s","?"," ","I","'","m"," ","p",
      "a","r","t","i","c","u","l","a","r","l","y"," ","i","n","t","e","r","e","s","t","e","d"," ",
      "i","n"," ","e","r","r","o","r"," ","h","a","n","d","l","i","n","g",","," ","v","a","l","i",
      "d","a","t","i","o","n",","," ","a","n","d"," ","s","e","c","u","r","i","t","y",".">>

CreatedAt2 ==
    <<"2","0","2","4","-","0","1","-","1","4","T","1","6",":","4","5",":","0","0","Z">>

UpdatedAt2 ==
    <<"2","0","2","4","-","0","1","-","1","4","T","1","6",":","4","5",":","0","0","Z">>

Title3 ==
    <<"D","a","t","a","b","a","s","e"," ","o","p","t","i","m","i","z","a","t","i","o","n"," ","t",
      "e","c","h","n","i","q","u","e","s">>

Description3 ==
    <<"M","y"," ","a","p","p","l","i","c","a","t","i","o","n"," ","i","s"," ","e","x","p","e","r",
      "i","e","n","c","i","n","g"," ","s","l","o","w"," ","d","a","t","a","b","a","s","e"," ","q",
      "u","e","r","i","e","s","."," ","W","h","a","t"," ","a","r","e"," ","s","o","m","e"," ","e",
      "f","f","e","c","t","i","v","e"," ","t","e","c","h","n","i","q","u","e","s"," ","f","o","r",
      " ","o","p","t","i","m","i","z","i","n","g"," ","d","a","t","a","b","a","s","e"," ","p","e",
      "r","f","o","r","m","a","n","c","e"," ","i","n"," ","a"," ","w","e","b"," ","a","p","p","l",
      "i","c","a","t","i","o","n","?">>

CreatedAt3 ==
    <<"2","0","2","4","-","0","1","-","1","3","T","0","9",":","1","5",":","0","0","Z">>

UpdatedAt3 ==
    <<"2","0","2","4","-","0","1","-","1","5","T","1","1",":","3","0",":","0","0","Z">>

DemoEmail ==
    <<"d","e","m","o","@","s","t","a","c","k","i","t",".","c","o","m">>

DemoName ==
    <<"D","e","m","o"," ","U","s","e","r">>

DemoPassword ==
    <<"d","e","m","o","1","2","3">>

NewTimestamp ==
    <<"2","0","2","4","-","0","1","-","1","6","T","1","2",":","0","0",":","0","0","Z">>

mock_questions ==
    << [id |-> 1, title |-> JStr(Title1), description |-> JStr(Description1),
        author |-> [id |-> 1, name |-> "John Doe", reputation |-> 1250],
        tags |-> <<[id |-> 1, name |-> "react"], [id |-> 2, name |-> "authentication"]>>,
        voteCount |-> 15, answerCount |-> 3, viewCount |-> 245, isResolved |-> TRUE,
        createdAt |-> CreatedAt1, updatedAt |-> UpdatedAt1],
       [id |-> 2, title |-> JStr(Title2), description |-> JStr(Description2),
        author |-> [id |-> 2, name |-> "Jane Smith", reputation |-> 890],
        tags |-> <<[id |-> 3, name |-> "nodejs"], [id |-> 4, name |-> "api"],
                   [id |-> 5, name |-> "rest"]>>,
        voteCount |-> 8, answerCount |-> 2, viewCount |-> 156, isResolved |-> FALSE,
        createdAt |-> CreatedAt2, updatedAt |-> UpdatedAt2],
       [id |-> 3, title |-> JStr(Title3), description |-> JStr(Description3),
        author |-> [id |-> 3, name |-> "Mike Johnson", reputation |-> 2100],
        tags |-> <<[id |-> 6, name |-> "database"], [id |-> 7, name |-> "optimization"],
                   [id |-> 8, name |-> "performance"]>>,
        voteCount |-> 22, answerCount |-> 5, viewCount |-> 387, isResolved |-> TRUE,
        createdAt |-> CreatedAt3, updatedAt |-> UpdatedAt3] >>

mock_users ==
    << [id |-> 1, email |-> JStr(DemoEmail), name |-> JStr(DemoName),
        password |-> JStr(DemoPassword), reputation |-> 1250, avatar |-> JNull] >>

(***************************************************************************)
(* Python primitives used by the handlers.                                 *)
(***************************************************************************)
UpperToLower ==
    [c \in {"A","B","C","D","E","F","G","H","I","J","K","L","M",
            "N","O","P","Q","R","S","T","U","V","W","X","Y","Z"} |->
        CASE c = "A" -> "a" [] c = "B" -> "b" [] c = "C" -> "c" [] c = "D" -> "d"
          [] c = "E" -> "e" [] c = "F" -> "f" [] c = "G" -> "g" [] c = "H" -> "h"
          [] c = "I" -> "i" [] c = "J" -> "j" [] c = "K" -> "k" [] c = "L" -> "l"
          [] c = "M" -> "m" [] c = "N" -> "n" [] c = "O" -> "o" [] c = "P" -> "p"
          [] c = "Q" -> "q" [] c = "R" -> "r" [] c = "S" -> "s" [] c = "T" -> "t"
          [] c = "U" -> "u" [] c = "V" -> "v" [] c = "W" -> "w" [] c = "X" -> "x"
          [] c = "Y" -> "y" [] c = "Z" -> "z"]

\* One character of str.lower()
LowerChar(c) == IF c \in DOMAIN UpperToLower THEN UpperToLower[c] ELSE c

\* str.lower()
Lower(s) == [i \in 1..Len(s) |-> LowerChar(s[i])]

\* `needle in hay.lower()`, lowering hay character by character
InLower(needle, hay) ==
    \E i \in 0..(Len(hay) - Len(needle)) :
        \A j \in 1..Len(needle) : LowerChar(hay[i + j]) = needle[j]

\* Code points of the characters that occur in the createdAt strings.
Ord(c) ==
    CASE c = "-" -> 45 [] c = "0" -> 48 [] c = "1" -> 49 [] c = "2" -> 50 [] c = "3" -> 51
      [] c = "4" -> 52 [] c = "5" -> 53 [] c = "6" -> 54 [] c = "7" -> 55 [] c = "8" -> 56
      [] c = "9" -> 57 [] c = ":" -> 58 [] c = "T" -> 84 [] c = "Z" -> 90

\* a < b for Python strings: code-point order, a proper prefix is smaller.
RECURSIVE StrLess(_, _)
StrLess(a, b) ==
    IF b = <<>> THEN FALSE
    ELSE IF a = <<>> THEN TRUE
    ELSE IF Head(a) = Head(b) THEN StrLess(Tail(a), Tail(b))
    ELSE Ord(Head(a)) < Ord(Head(b))

\* Normalisation of one slice bound against a list of length n.
SliceIndex(i, n) ==
    IF i < 0 THEN (IF i + n < 0 THEN 0 ELSE i + n)
    ELSE IF i > n THEN n ELSE i

\* s[start:end]
PySlice(s, start, end) ==
    LET a == SliceIndex(start, Len(s))
        b == SliceIndex(end, Len(s))
    IN  IF a >= b THEN <<>> ELSE SubSeq(s, a + 1, b)

\* a // b for b # 0 (floor division, also for a negative divisor)
FloorDiv(a, b) == IF b > 0 THEN a \div b ELSE (0 - a) \div (0 - b)

(***************************************************************************)
(* get_questions: filter, sort, paginate.                                  *)
(***************************************************************************)
\* The key function handed to list.sort.
SortKeyLess(sort_by, x, y) ==
    CASE sort_by = "voteCount" -> x.voteCount < y.voteCount
      [] sort_by = "answerCount" -> x.answerCount < y.answerCount
      [] sort_by = "viewCount" -> x.viewCount < y.viewCount
      [] OTHER -> StrLess(x.createdAt, y.createdAt)

\* Variant: the order flag is ignored.
ReverseIgnored(sort_order) == FALSE

\* reverse = sort_order == 'desc'
Reverse(sort_order) == sort_order = "desc"

\* x must be placed before y in the sorted list
Before(sort_by, reverse, x, y) ==
    IF reverse THEN SortKeyLess(sort_by, y, x) ELSE SortKeyLess(sort_by, x, y)

\* Insert x, which followed every element of the sorted list s in the
\* original order, keeping equal keys in their original order.
RECURSIVE InsertStable(_, _, _, _)
InsertStable(sort_by, reverse, s, x) ==
    IF s = <<>> THEN <<x>>
    ELSE IF Before(sort_by, reverse, x, s[Len(s)])
         THEN Append(InsertStable(sort_by, reverse, SubSeq(s, 1, Len(s) - 1), x), s[Len(s)])
         ELSE Append(s, x)

\* Insertion sort with InsertStable: a stable sort in the requested order.
RECURSIVE StableSort(_, _, _)
StableSort(sort_by, reverse, s) ==
    IF s = <<>> THEN <<>>
    ELSE InsertStable(sort_by, reverse,
                      StableSort(sort_by, reverse, SubSeq(s, 1, Len(s) - 1)), s[Len(s)])

ReverseSeq(s) == [i \in 1..Len(s) |-> s[Len(s) + 1 - i]]

\* Variant: descending order obtained by reversing the ascending result,
\* which also reverses the records with equal keys.
ListSortReversing(sort_by, reverse, s) ==
    IF reverse THEN ReverseSeq(StableSort(sort_by, FALSE, s))
    ELSE StableSort(sort_by, FALSE, s)

\* list.sort(key=..., reverse=...): stable, also when reverse is set
\* (records with equal keys keep their original order).
ListSort(sort_by, reverse, s) == StableSort(sort_by, reverse, s)

\* The filter expression on one record q:
\*   search.lower() in q['title'].lower() or search.lower() in q['description'].lower()
\* .lower() on a value that is not a string raises AttributeError; `or`
\* evaluates the description only when the title does not match.
MatchRaises(search, q) ==
    \/ q.title.t # "str"
    \/ /\ ~InLower(Lower(search), q.title.v)
       /\ q.description.t # "str"

\* Variant: the search string is not lowered before the comparison.
SearchMatchesRaw(search, q) ==
    \/ InLower(search, q.title.v)
    \/ InLower(search, q.description.v)

SearchMatches(search, q) ==
    \/ InLower(Lower(search), q.title.v)
    \/ InLower(Lower(search), q.description.v)

\* [q for q in mock_questions if ...]
RECURSIVE Filter(_, _)
Filter(search, s) ==
    IF s = <<>> THEN <<>>
    ELSE IF SearchMatches(search, Head(s))
         THEN <<Head(s)>> \o Filter(search, Tail(s))
         ELSE Filter(search, Tail(s))

\* Variant: the page count is rounded down.
TotalPagesFloor(total, limit) == FloorDiv(total, limit)

\* total_pages = (total + limit - 1) // limit
TotalPages(total, limit) == FloorDiv(total + limit - 1, limit)

ErrorBody(msg) == [error |-> [message |-> msg]]

\* The handler as a function of the catalog and the query arguments
\* a = [page, limit, search, sortBy, sortOrder, badInt]; the result carries
\* the response and the catalog the call leaves behind.
get_questions(questions, a) ==
    IF a.badInt
    THEN [status |-> 500, body |-> ErrorBody("ValueError"), catalog |-> questions]
    ELSE IF a.search # <<>> /\ \E i \in 1..Len(questions) : MatchRaises(a.search, questions[i])
    THEN [status |-> 500, body |-> ErrorBody("AttributeError"), catalog |-> questions]
    ELSE
      LET aliased == a.search = <<>>
          filtered_questions == IF aliased THEN questions ELSE Filter(a.search, questions)
          sorted == ListSort(a.sortBy, Reverse(a.sortOrder), filtered_questions)
          \* with an empty search filtered_questions IS mock_questions, and
          \* list.sort sorts it in place
          after == IF aliased THEN sorted ELSE questions
          total == Len(sorted)
          start == (a.page - 1) * a.limit
          end == start + a.limit
          page_items == PySlice(sorted, start, end)
      IN  IF a.limit = 0
          THEN [status |-> 500, body |-> ErrorBody("ZeroDivisionError"), catalog |-> after]
          ELSE [status |-> 200,
                body |-> [questions |-> page_items,
                          pagination |-> [page |-> a.page, limit |-> a.limit,
                                          total |-> total,
                                          totalPages |-> TotalPages(total, a.limit),
                                          hasPrev |-> a.page > 1,
                                          hasNext |-> a.page < TotalPages(total, a.limit)]],
                catalog |-> after]

(***************************************************************************)
(* get_question and create_question.                                       *)
(***************************************************************************)
\* Variant: the id is used as a position in the list.
get_question_by_position(questions, question_id) ==
    IF question_id \in 1..Len(questions)
    THEN [status |-> 200, body |-> questions[question_id]]
    ELSE [status |-> 404, body |-> ErrorBody("Question not found")]

\* next((q for q in mock_questions if q['id'] == question_id), None)
get_question(questions, question_id) ==
    IF \E i \in 1..Len(questions) : questions[i].id = question_id
    THEN LET i == CHOOSE j \in 1..Len(questions) :
                    /\ questions[j].id = question_id
                    /\ \A k \in 1..(j - 1) : questions[k].id # question_id
         IN  [status |-> 200, body |-> questions[i]]
    ELSE [status |-> 404, body |-> ErrorBody("Question not found")]

NewQuestionId(questions) == Len(questions) + 1

\* data = [title, description, tags]; tags is the list given, or <<>> when
\* the key is absent (data.get('tags', [])).
NewQuestion(questions, data) ==
    [id |-> NewQuestionId(questions), title |-> data.title, description |-> data.description,
     author |-> [id |-> 1, name |-> "Current User", reputation |-> 100],
     tags |-> data.tags,
     voteCount |-> 0, answerCount |-> 0, viewCount |-> 0, isResolved |-> FALSE,
     createdAt |-> NewTimestamp, updatedAt |-> NewTimestamp]

create_question(questions, data) ==
    IF ~Truthy(data.title) \/ ~Truthy(data.description)
    THEN [status |-> 400, body |-> ErrorBody("Title and description are required"),
          catalog |-> questions]
    ELSE [status |-> 201, body |-> NewQuestion(questions, data),
          catalog |-> Append(questions, NewQuestion(questions, data))]

(***************************************************************************)
(* register, login, logout, get_profile.                                   *)
(***************************************************************************)
Tokens == [accessToken |-> "mock_access_token", refreshToken |-> "mock_refresh_token"]

\* {k: v for k, v in user.items() if k != 'password'}
WithoutPassword(u) ==
    [id |-> u.id, email |-> u.email, name |-> u.name,
     reputation |-> u.reputation, avatar |-> u.avatar]

\* data = [email, password, name]; JNull stands for an absent key, and a
\* body with every key absent behaves like an absent or empty body.
RegisterInvalid(data) ==
    ~Truthy(data.email) \/ ~Truthy(data.password) \/ ~Truthy(data.name)

\* Variant: only the first record is compared.
existing_user_first_only(users, data) ==
    users # <<>> /\ JEq(users[1].email, data.email)

\* next((u for u in mock_users if u['email'] == data['email']), None) is not None
existing_user(users, data) ==
    \E i \in 1..Len(users) : JEq(users[i].email, data.email)

\* Variant: the id is the current count.
NewUserIdCount(users) == Len(users)

NewUserId(users) == Len(users) + 1

NewUser(users, data) ==
    [id |-> NewUserId(users), email |-> data.email, name |-> data.name,
     password |-> data.password, reputation |-> 0, avatar |-> JNull]

\* Variant: the id is assigned again at the moment of the append.
AppendUserFreshId(users, new_user) ==
    Append(users, [new_user EXCEPT !.id = Len(users) + 1])

AppendUser(users, new_user) == Append(users, new_user)

register(users, data) ==
    IF RegisterInvalid(data)
    THEN [status |-> 400, body |-> ErrorBody("Email, password, and name are required"),
          users |-> users]
    ELSE IF existing_user(users, data)
    THEN [status |-> 409, body |-> ErrorBody("User with this email already exists"),
          users |-> users]
    ELSE [status |-> 201,
          body |-> [user |-> WithoutPassword(NewUser(users, data)), tokens |-> Tokens],
          users |-> AppendUser(users, NewUser(users, data))]

\* data = [email, password]
login(users, data) ==
    IF ~Truthy(data.email) \/ ~Truthy(data.password)
    THEN [status |-> 400, body |-> ErrorBody("Email and password are required")]
    ELSE IF ~existing_user(users, data)
    THEN [status |-> 401, body |-> ErrorBody("Invalid email or password")]
    ELSE LET i == CHOOSE j \in 1..Len(users) :
                    /\ JEq(users[j].email, data.email)
                    /\ \A k \in 1..(j - 1) : ~JEq(users[k].email, data.email)
         IN  IF ~JEq(users[i].password, data.password)
             THEN [status |-> 401, body |-> ErrorBody("Invalid email or password")]
             ELSE [status |-> 200,
                   body |-> [user |-> WithoutPassword(users[i]), tokens |-> Tokens]]

logout == [status |-> 200, body |-> [message |-> "Logged out successfully"]]

get_profile(users) ==
    IF users # <<>>
    THEN [status |-> 200, body |-> WithoutPassword(users[1])]
    ELSE [status |-> 404, body |-> ErrorBody("User not found")]

(***************************************************************************)
(* Request inputs.                                                         *)
(***************************************************************************)
EmailA == <<"a","@","x">>
EmailB == <<"b","@","x">>
OtherPassword == <<"p","w">>
OtherName == <<"A","n","n">>

Emails == {JNull, JStr(DemoEmail), JStr(EmailA), JStr(EmailB)}
Names == {JNull, JStr(OtherName)}
RegisterPasswords == {JNull, JStr(<<>>), JStr(OtherPassword)}
LoginPasswords == {JNull, JStr(DemoPassword), JStr(OtherPassword)}

RegisterBodies == [email : Emails, password : RegisterPasswords, name : Names]
LoginBodies == [email : Emails, password : LoginPasswords]

Pages == (0 - NegPages)..MaxPage
Limits == 0..MaxLimit
Searches == {<<>>, <<"r","E","a">>, <<"D","a","t">>}
SortBys == {"voteCount", "answerCount", "viewCount", "createdAt", "title"}
SortOrders == {"desc", "asc", "DESC"}

ListArgs ==
    [page : Pages, limit : Limits, search : Searches, sortBy : SortBys,
     sortOrder : SortOrders, badInt : {FALSE}]
    \cup {[page |-> 1, limit |-> 20, search |-> <<>>, sortBy |-> "createdAt",
           sortOrder |-> "desc", badInt |-> TRUE]}

QuestionIds == 0..(MaxQuestions + 1)

NewTitle == <<"D","a","t","a">>
NewDescription == <<"r","e","a","d">>
QuestionTitles == {JNull, JStr(NewTitle), JNum(7)}
QuestionDescriptions == {JNull, JStr(NewDescription)}
QuestionTags == {<<>>}
QuestionBodies ==
    [title : QuestionTitles, description : QuestionDescriptions, tags : QuestionTags]

(***************************************************************************)
(* State.                                                                  *)
(*   users, catalog : the lists mock_users and mock_questions              *)
(*   req, resp      : the request being served and its response, until the *)
(*                    response has been sent                               *)
(*   pristine       : history: the catalog as it would be had no           *)
(*                    get_questions call ever been made (the seed records  *)
(*                    followed by the created records, in creation order)  *)
(*   pc, loc        : position and locals of each concurrent register      *)
(*                    request (used by SpecRace only)                      *)
(***************************************************************************)
VARIABLES users, catalog, req, resp, pristine, pc, loc

vars == <<users, catalog, req, resp, pristine, pc, loc>>

NoReq == [op |-> "none"]
NoResp == [status |-> 0]

Procs == 1..NumProcs
NoLocals == [data |-> [email |-> JNull, password |-> JNull, name |-> JNull],
             new_user |-> JNull, status |-> 0]

Init ==
    /\ users = mock_users
    /\ catalog = mock_questions
    /\ pristine = mock_questions
    /\ req = NoReq
    /\ resp = NoResp
    /\ pc = [p \in Procs |-> "idle"]
    /\ loc = [p \in Procs |-> NoLocals]

Idle == resp = NoResp

(***************************************************************************)
(* One action per route; each runs the whole handler.                      *)
(***************************************************************************)
ListQuestions ==
    /\ Idle
    /\ \E a \in ListArgs :
         \E r \in {get_questions(catalog, a)} :
             /\ catalog' = r.catalog
             /\ req' = [op |-> "listQuestions", args |-> a]
             /\ resp' = [status |-> r.status, body |-> r.body]
    /\ UNCHANGED <<users, pristine, pc, loc>>

GetQuestion ==
    /\ Idle
    /\ \E id \in QuestionIds :
         \E r \in {get_question(catalog, id)} :
             /\ req' = [op |-> "getQuestion", id |-> id]
             /\ resp' = [status |-> r.status, body |-> r.body]
    /\ UNCHANGED <<users, catalog, pristine, pc, loc>>

CreateQuestion ==
    /\ Idle
    /\ Len(catalog) < MaxQuestions
    /\ \E data \in QuestionBodies :
         \E r \in {create_question(catalog, data)} :
             /\ catalog' = r.catalog
             /\ pristine' = IF r.status = 201 THEN Append(pristine, r.body) ELSE pristine
             /\ req' = [op |-> "createQuestion", data |-> data]
             /\ resp' = [status |-> r.status, body |-> r.body]
    /\ UNCHANGED <<users, pc, loc>>

Register ==
    /\ Idle
    /\ Len(users) < MaxUsers
    /\ \E data \in RegisterBodies :
         \E r \in {register(users, data)} :
             /\ users' = r.users
             /\ req' = [op |-> "register", data |-> data]
             /\ resp' = [status |-> r.status, body |-> r.body]
    /\ UNCHANGED <<catalog, pristine, pc, loc>>

Login ==
    /\ Idle
    /\ \E data \in LoginBodies :
         \E r \in {login(users, data)} :
             /\ req' = [op |-> "login", data |-> data]
             /\ resp' = [status |-> r.status, body |-> r.body]
    /\ UNCHANGED <<users, catalog, pristine, pc, loc>>

Logout ==
    /\ Idle
    /\ req' = [op |-> "logout"]
    /\ resp' = logout
    /\ UNCHANGED <<users, catalog, pristine, pc, loc>>

GetProfile ==
    /\ Idle
    /\ req' = [op |-> "getProfile"]
    /\ resp' = get_profile(users)
    /\ UNCHANGED <<users, catalog, pristine, pc, loc>>

\* The response leaves the server; the next request can be served.
SendResponse ==
    /\ ~Idle
    /\ req' = NoReq
    /\ resp' = NoResp
    /\ UNCHANGED <<users, catalog, pristine, pc, loc>>

\* Every handler runs to completion before the next one starts.
Next ==
    \/ Register
    \/ Login
    \/ Logout
    \/ GetProfile
    \/ ListQuestions
    \/ GetQuestion
    \/ CreateQuestion
    \/ SendResponse

Spec == Init /\ [][Next]_vars

\* The question catalog on its own.
NextCatalog ==
    \/ ListQuestions
    \/ GetQuestion
    \/ CreateQuestion
    \/ SendResponse

SpecCatalog == Init /\ [][NextCatalog]_vars

\* The account directory on its own.
NextAuth ==
    \/ Register
    \/ Login
    \/ Logout
    \/ GetProfile
    \/ SendResponse

SpecAuth == Init /\ [][NextAuth]_vars


(***************************************************************************)
(* Concurrent register requests (the server handles requests in threads    *)
(* and the lists are shared without a lock).  Each request p runs          *)
(* register in four steps that other requests can interleave with:         *)
(* validation, the duplicate-email scan, building new_user (which reads    *)
(* len(mock_users)), and the append.                                       *)
(***************************************************************************)
RegValidate(p) ==
    /\ pc[p] = "idle"
    /\ Len(users) < MaxUsers
    /\ \E data \in RegisterBodies :
         IF RegisterInvalid(data)
         THEN /\ pc' = [pc EXCEPT ![p] = "done"]
              /\ loc' = [loc EXCEPT ![p] = [data |-> data, new_user |-> JNull, status |-> 400]]
         ELSE /\ pc' = [pc EXCEPT ![p] = "scan"]
              /\ loc' = [loc EXCEPT ![p] = [data |-> data, new_user |-> JNull, status |-> 0]]
    /\ UNCHANGED <<users, catalog, req, resp, pristine>>

RegScan(p) ==
    /\ pc[p] = "scan"
    /\ IF existing_user(users, loc[p].data)
       THEN /\ pc' = [pc EXCEPT ![p] = "done"]
            /\ loc' = [loc EXCEPT ![p].status = 409]
       ELSE /\ pc' = [pc EXCEPT ![p] = "build"]
            /\ loc' = loc
    /\ UNCHANGED <<users, catalog, req, resp, pristine>>

RegBuild(p) ==
    /\ pc[p] = "build"
    /\ pc' = [pc EXCEPT ![p] = "append"]
    /\ loc' = [loc EXCEPT ![p].new_user = NewUser(users, loc[p].data)]
    /\ UNCHANGED <<users, catalog, req, resp, pristine>>

RegAppend(p) ==
    /\ pc[p] = "append"
    /\ Len(users) < MaxUsers
    /\ users' = AppendUser(users, loc[p].new_user)
    /\ pc' = [pc EXCEPT ![p] = "done"]
    /\ loc' = [loc EXCEPT ![p].status = 201]
    /\ UNCHANGED <<catalog, req, resp, pristine>>

\* The response of request p is sent; thread p takes the next request.
RegReturn(p) ==
    /\ pc[p] = "done"
    /\ pc' = [pc EXCEPT ![p] = "idle"]
    /\ loc' = [loc EXCEPT ![p] = NoLocals]
    /\ UNCHANGED <<users, catalog, req, resp, pristine>>

NextRace ==
    \/ \E p \in Procs : RegValidate(p)
    \/ \E p \in Procs : RegScan(p)
    \/ \E p \in Procs : RegBuild(p)
    \/ \E p \in Procs : RegAppend(p)
    \/ \E p \in Procs : RegReturn(p)

SpecRace == Init /\ [][NextRace]_vars

(***************************************************************************)
(* Properties.                                                             *)
(***************************************************************************)
IsList == req.op = "listQuestions"
ListOK == IsList /\ resp.status = 200

HasDupId(s) == \E i, j \in 1..Len(s) : i # j /\ s[i].id = s[j].id
HasDupEmail(s) == \E i, j \in 1..Len(s) : i # j /\ s[i].email = s[j].email

\* S occurs in text, letters compared without regard to case.
Occurs(S, text) ==
    \E i \in 0..(Len(text) - Len(S)) :
        \A j \in 1..Len(S) : LowerChar(text[i + j]) = LowerChar(S[j])

\* q passes the search filter for S.
Passes(S, q) ==
    \/ S = <<>>
    \/ q.title.t = "str" /\ Occurs(S, q.title.v)
    \/ q.description.t = "str" /\ Occurs(S, q.description.v)

PassCount(S, s) == Cardinality({i \in 1..Len(s) : Passes(S, s[i])})

\* ceil(total / limit) for limit >= 1: the least n with n * limit >= total.
Ceil(total, limit) == CHOOSE n \in 0..total : n * limit >= total /\ (n = 0 \/ (n - 1) * limit < total)

\* key(x) <= key(y) for the key named by sort_by
KeyLeq(sort_by, x, y) ==
    CASE sort_by = "voteCount" -> x.voteCount <= y.voteCount
      [] sort_by = "answerCount" -> x.answerCount <= y.answerCount
      [] sort_by = "viewCount" -> x.viewCount <= y.viewCount
      [] OTHER -> ~StrLess(y.createdAt, x.createdAt)

\* C1: listQuestions never changes the catalog (records and order); the
\* catalog changes only by a successful createQuestion appending one record.
C1_ListIsPureRead ==
    [][ /\ (req'.op = "listQuestions" => catalog' = catalog)
        /\ (catalog' # catalog =>
              /\ req'.op = "createQuestion"
              /\ resp'.status = 201
              /\ catalog' = Append(catalog, resp'.body)) ]_vars

\* C2 as stated: a register request whose email is already in the directory
\* yields 409 and leaves the directory unchanged, whatever password and name are.
C2_DuplicateAlwaysConflict ==
    [][ (req'.op = "register" /\ \E i \in 1..Len(users) : users[i].email = req'.data.email)
          => (resp'.status = 409 /\ users' = users) ]_vars

\* C2 amended: a register request whose email is already in the directory
\* leaves the directory unchanged and yields 409 when password and name are
\* both present and non-empty, and 400 when either is missing or empty.
C2_DuplicateConflictOrValidation ==
    [][ (req'.op = "register" /\ \E i \in 1..Len(users) : users[i].email = req'.data.email)
          => /\ users' = users
             /\ resp'.status = IF Truthy(req'.data.password) /\ Truthy(req'.data.name)
                               THEN 409 ELSE 400 ]_vars

\* A second registration of an email that was itself registered earlier is refused.
C2_Witness ==
    /\ req.op = "register"
    /\ req.data.email = JStr(EmailA)
    /\ resp.status = 409
    /\ Len(users) = 2

\* C3: with limit >= 1, a listQuestions call whose page is out of range
\* (page <= 0 or page > totalPages) succeeds with an empty question list.
C3_OutOfRangePageEmpty ==
    (/\ IsList
     /\ ~req.args.badInt
     /\ req.args.limit >= 1
     /\ \/ req.args.page <= 0
        \/ resp.status = 200 /\ req.args.page > resp.body.pagination.totalPages)
    => (resp.status = 200 /\ resp.body.questions = <<>>)

\* C4: for limit >= 1 the pagination metadata of a listQuestions response
\* has total = number of records passing the filter, totalPages =
\* ceil(total/limit), hasNext = (page < totalPages), hasPrev = (page > 1).
C4_PaginationMetadata ==
    (ListOK /\ req.args.limit >= 1) =>
        LET p == resp.body.pagination
        IN  /\ p.total = PassCount(req.args.search, catalog)
            /\ p.totalPages = Ceil(p.total, req.args.limit)
            /\ p.hasNext = (req.args.page < p.totalPages)
            /\ p.hasPrev = (req.args.page > 1)

\* A first page of two out of three records: one more page, none before.
C4_Witness ==
    /\ ListOK
    /\ resp.body.pagination.total = 3
    /\ resp.body.pagination.limit = 2
    /\ resp.body.pagination.totalPages = 2
    /\ resp.body.pagination.hasNext
    /\ ~resp.body.pagination.hasPrev

\* C5: listQuestions returns only records in which the search string occurs
\* (case-insensitively) in the title or the description, an empty search
\* keeps every record, and total is the size of the whole filtered set.
C5_SearchFilter ==
    ListOK =>
        /\ \A i \in 1..Len(resp.body.questions) :
              Passes(req.args.search, resp.body.questions[i])
        /\ resp.body.pagination.total = PassCount(req.args.search, catalog)
        /\ (req.args.search = <<>> => resp.body.pagination.total = Len(catalog))

\* A mixed-case search that keeps some records only, more than fit the page.
C5_Witness ==
    /\ ListOK
    /\ req.args.search = <<"D","a","t">>
    /\ resp.body.pagination.total \in 2..(Len(catalog) - 1)
    /\ Len(resp.body.questions) = 1

\* C6: the returned records are ordered by the key named by sortBy
\* (createdAt as a string for any other name): non-increasing for
\* sortOrder "desc", non-decreasing for any other sortOrder.
C6_Sorted ==
    ListOK =>
        \A i \in 1..(Len(resp.body.questions) - 1) :
            IF req.args.sortOrder = "desc"
            THEN KeyLeq(req.args.sortBy, resp.body.questions[i + 1], resp.body.questions[i])
            ELSE KeyLeq(req.args.sortBy, resp.body.questions[i], resp.body.questions[i + 1])

\* A descending page of two records with different keys, after the catalog
\* had been left in ascending order.
C6_Witness ==
    /\ ListOK
    /\ req.args.sortOrder = "desc"
    /\ req.args.sortBy = "voteCount"
    /\ req.args.search # <<>>
    /\ Len(resp.body.questions) = 2
    /\ resp.body.questions[1].voteCount > resp.body.questions[2].voteCount
    /\ catalog[1].voteCount < catalog[Len(catalog)].voteCount

\* C7: getQuestion(id) yields 404 exactly when no record has that id and
\* otherwise the record with that id; the record returned by a successful
\* createQuestion with id k is what getQuestion(k) returns ever after.
C7_GetQuestion ==
    /\ req.op = "getQuestion" =>
          /\ resp.status = 404 <=> ~\E i \in 1..Len(catalog) : catalog[i].id = req.id
          /\ resp.status \in {200, 404}
          /\ resp.status = 200 =>
                /\ resp.body.id = req.id
                /\ \E i \in 1..Len(catalog) : catalog[i] = resp.body
    /\ \A k \in (Len(mock_questions) + 1)..Len(pristine) :
          get_question(catalog, k) = [status |-> 200, body |-> pristine[k]]

\* A created record fetched by its id after the catalog has been reordered.
C7_Witness ==
    /\ req.op = "getQuestion"
    /\ req.id = 4
    /\ resp.status = 200
    /\ resp.body = pristine[4]
    /\ catalog[4].id # 4

\* C8: a registration that appends after another registration has appended
\* since it read the length of the directory leaves two records with the
\* same id, and one that appends after a record with its email has been
\* appended since its scan leaves two records with the same email.
C8_RaceDuplicates ==
    [][ \A p \in Procs :
          (pc[p] = "append" /\ pc'[p] = "done") =>
              /\ (loc[p].new_user.id <= Len(users) => HasDupId(users'))
              /\ ((\E i \in 1..Len(users) : users[i].email = loc[p].new_user.email)
                    => HasDupEmail(users')) ]_vars

\* Two concurrent requests both answered 201, leaving two records with the
\* same email and the same id.
C8_Witness ==
    /\ \A p \in Procs : pc[p] = "done" /\ loc[p].status = 201
    /\ \E i, j \in 1..Len(users) :
          i # j /\ users[i].id = users[j].id /\ users[i].email = users[j].email

\* C9: when handlers run one at a time, no two user records share an id or
\* an email and no two question records share an id.
C9_SequentialUniqueness ==
    /\ ~HasDupId(users)
    /\ ~HasDupEmail(users)
    /\ ~HasDupId(catalog)

\* Three users and five questions, the catalog reordered by a listing.
C9_Witness ==
    /\ Len(users) = 3
    /\ Len(catalog) = 5
    /\ catalog # pristine

\* C10: the response of listQuestions does not depend on earlier
\* listQuestions calls: it equals the response the same call gets in the
\* run that made the same createQuestion calls and no listQuestions call.
C10_ListIndependentOfHistory ==
    IsList =>
        /\ resp.status = get_questions(pristine, req.args).status
        /\ resp.body = get_questions(pristine, req.args).body

\* A listing of the two created records (equal keys) in a catalog that
\* earlier listings have reordered.
C10_Witness ==
    /\ ListOK
    /\ req.args.search # <<>>
    /\ catalog # pristine
    /\ Len(resp.body.questions) = 2
    /\ \A i \in 1..2 : resp.body.questions[i].id > Len(mock_questions)

====
